---------------------------- MODULE Spec2Model ----------------------------
(***************************************************************************)
(* A model of jwt::parse (src/src/lib.rs): verification and decoding of a  *)
(* compact HS256 token.  A token is a sequence of characters; parse splits *)
(* it from the right to find the signature, compares the HMAC of the       *)
(* preceding text with the decoded signature, splits it again from the     *)
(* left, decodes header and payload and hands them to the JSON decoder.    *)
(*                                                                         *)
(* The three libraries parse calls are modelled at this granularity:       *)
(*  - an octet of a decoded segment is one lexeme: a JSON object member    *)
(*    ("name": value), an octet that is not JSON, or one octet of an HMAC  *)
(*    tag;                                                                 *)
(*  - a character is '.', a character outside the base64 alphabet, or the  *)
(*    base64 digit carrying one octet;                                     *)
(*  - an HMAC tag is a term over the expanded key and the message (tags of *)
(*    different terms differ: the usual idealisation of a MAC).            *)
(***************************************************************************)
EXTENDS Integers, Sequences, FiniteSets, TLC

\* Longest key, in octets, that the caller passes.
MaxKeyLen == 2
\* Block size of the hash, in octets (64 for SHA-256), scaled down.
BlockSize == 1
\* Length of an HMAC tag, in octets (32 for SHA-256), scaled down.
MacLen == 2
\* Most unrecognised members in a header object.
MaxUnknown == 1
\* Most segments placed between the payload segment and the signature.
MaxExtra == 1

---------------------------------------------------------------------------
(* Result and Option values. *)

Ok(v) == <<"Ok", v>>
Err(e) == <<"Err", e>>
IsOk(r) == r[1] = "Ok"
Some(v) == <<"Some", v>>
None == <<"None">>
IsSome(o) == o[1] = "Some"
\* A local of parse that has not been assigned yet.
Unset == <<"unset">>

\* enum Error: Json carries the decoder's diagnostic, dropped here.
Json == "Json"
Signature == "Signature"
Format == "Format"

---------------------------------------------------------------------------
(* Characters and octets. *)

Dot == <<".">>
\* A character that is not in the base64 alphabet.
Bad == <<"!">>
B64(b) == <<"b64", b>>
IsB64(c) == c[1] = "b64"

StrVal(s) == <<"str", s>>
IntVal(n) == <<"int", n>>
Member(name, val) == <<"member", name, val>>
IsMember(b) == b[1] = "member"
\* An octet that no JSON text contains.
Garbage == <<"garbage">>

\* A decoder that skips the characters it does not know instead of failing.
base64_decode_lenient(message) ==
    Ok([i \in 1..Len(message) |-> IF IsB64(message[i]) THEN message[i][2] ELSE Garbage])

\* ::base64::decode: every character must be a base64 digit.
base64_decode(message) ==
    IF \A i \in 1..Len(message) : IsB64(message[i])
    THEN Ok([i \in 1..Len(message) |-> message[i][2]])
    ELSE Err(Format)

\* The struct a JSON text is decoded into: its fields and their types.
Schema(T) ==
    IF T = "Header"
    THEN {<<"alg", "str">>, <<"typ", "str">>}
    ELSE {<<"string", "str">>, <<"integer", "int">>}

Occurrences(v, name) == {i \in 1..Len(v) : IsMember(v[i]) /\ v[i][2] = name}

\* serde's derived Deserialize: every field of the struct exactly once and of
\* its type, members of other names skipped.
FieldOk(v, f) ==
    /\ Cardinality(Occurrences(v, f[1])) = 1
    /\ \A i \in Occurrences(v, f[1]) : v[i][3][1] = f[2]

FieldValue(v, name) == LET i == CHOOSE j \in Occurrences(v, name) : TRUE IN v[i][3][2]

FieldNames(T) == {f[1] : f \in Schema(T)}

\* A decoder that rejects members the struct does not name
\* (#[serde(deny_unknown_fields)]).
parse_json_strict(T, v) ==
    IF v = <<>> \/ \E i \in 1..Len(v) : ~IsMember(v[i])
    THEN Err(Json)
    ELSE IF \E f \in Schema(T) : ~FieldOk(v, f)
    THEN Err(Json)
    ELSE IF \E i \in 1..Len(v) : v[i][2] \notin FieldNames(T)
    THEN Err(Json)
    ELSE Ok([n \in FieldNames(T) |-> FieldValue(v, n)])

\* ::serde_json::from_slice into the struct T: Error::Json for a text that is
\* not an object or does not fit T.
parse_json(T, v) ==
    IF v = <<>> \/ \E i \in 1..Len(v) : ~IsMember(v[i])
    THEN Err(Json)
    ELSE IF \E f \in Schema(T) : ~FieldOk(v, f)
    THEN Err(Json)
    ELSE Ok([n \in FieldNames(T) |-> FieldValue(v, n)])

\* A validator that fails only when both fields are wrong.
validate_header_either(header) ==
    IF header.alg # "HS256" /\ header.typ # "JWT" THEN Err(Format) ELSE Ok(<<>>)

\* Lines 25-29: alg, then typ, each compared exactly.
validate_header(header) ==
    IF header.alg # "HS256" THEN Err(Format)
    ELSE IF header.typ # "JWT" THEN Err(Format)
    ELSE Ok(<<>>)

\* Hmac::new: a key of at most one block is padded with zeros to the block,
\* a longer one is replaced by its digest.
ExpandKey(k) ==
    IF Len(k) <= BlockSize
    THEN <<"block", k \o [i \in 1..(BlockSize - Len(k)) |-> 0]>>
    ELSE <<"digest", k>>

\* hmac.result().code(): the tag of input under key, octet by octet.
HmacCode(key, input) == [i \in 1..MacLen |-> <<"hmac", ExpandKey(key), input, i>>]

\* A comparison that accepts the tag of input under any key.
hmac_sha256_equals_anykey(input, key, hash) ==
    \E k \in UNION {[1..n -> {0, 1}] : n \in 0..MaxKeyLen} : HmacCode(k, input) = hash

\* Lines 69-78: the tag of input under key equals hash, octet for octet.
hmac_sha256_equals(input, key, hash) == HmacCode(key, input) = hash

DotPositions(s) == {i \in 1..Len(s) : s[i] = Dot}
Max(S) == CHOOSE m \in S : \A n \in S : n <= m
Min(S) == CHOOSE m \in S : \A n \in S : m <= n

\* json.rsplitn(2, '.'): the text after the last '.', then the text before it.
rsplitn2(s) ==
    IF DotPositions(s) = {} THEN <<s>>
    ELSE LET i == Max(DotPositions(s))
         IN <<SubSeq(s, i + 1, Len(s)), SubSeq(s, 1, i - 1)>>

\* A split that cuts at the first '.' only (splitn(2, '.')).
splitn3_two(s) ==
    IF DotPositions(s) = {} THEN <<s>>
    ELSE LET i == Min(DotPositions(s))
         IN <<SubSeq(s, 1, i - 1), SubSeq(s, i + 1, Len(s))>>

\* json.splitn(3, '.'): cut at the first two '.' from the left.
splitn3(s) ==
    IF DotPositions(s) = {} THEN <<s>>
    ELSE LET i == Min(DotPositions(s))
             rest == DotPositions(s) \ {i}
         IN IF rest = {} THEN <<SubSeq(s, 1, i - 1), SubSeq(s, i + 1, Len(s))>>
            ELSE LET j == Min(rest)
                 IN <<SubSeq(s, 1, i - 1), SubSeq(s, i + 1, j - 1),
                      SubSeq(s, j + 1, Len(s))>>

\* Iterator::next on the n-th call.
NextPart(it, n) == IF n <= Len(it) THEN Some(it[n]) ELSE None

---------------------------------------------------------------------------
(* The inputs: keys, and the tokens an encoder or an attacker can hand in. *)

KeyBytes == {0, 1}
Keys == UNION {[1..n -> KeyBytes] : n \in 0..MaxKeyLen}

\* pub struct Payload: the caller's type T.
Payloads == [string : {"Bilbo Baggins", ""}, integer : {1337}]

\* serde_json::to_vec of a Header and of a Payload.
HeaderJson(h) == <<Member("alg", StrVal(h.alg)), Member("typ", StrVal(h.typ))>>
PayloadJson(p) == <<Member("string", StrVal(p.string)), Member("integer", IntVal(p.integer))>>

base64_encode(bytes) == [i \in 1..Len(bytes) |-> B64(bytes[i])]

\* The signing input of a token: the encoded segments joined by '.'.
SigningInput(hbytes, pbytes) ==
    base64_encode(hbytes) \o <<Dot>> \o base64_encode(pbytes)

\* The token an HS256 encoder builds from header and payload octets.
Sign(k, input) == input \o <<Dot>> \o base64_encode(HmacCode(k, input))
BuildToken(hbytes, pbytes, k) == Sign(k, SigningInput(hbytes, pbytes))

GoodHeader == [alg |-> "HS256", typ |-> "JWT"]

Unknown == Member("unknown", StrVal("value"))
UnknownPrefixes == {[i \in 1..n |-> Unknown] : n \in 0..MaxUnknown}

\* Header texts: both fields in either order, a wrong or differently cased
\* alg or typ, one field or both missing; each after some unrecognised members.
AlgValues == {"HS256", "hs256", "none"}
TypValues == {"JWT", "jwt"}
Headers == [alg : AlgValues, typ : TypValues]
AlgOnly(a) == <<Member("alg", StrVal(a))>>
TypOnly(t) == <<Member("typ", StrVal(t))>>

HeaderCores ==
    {HeaderJson(h) : h \in Headers}
    \cup {TypOnly("JWT") \o AlgOnly("HS256")}
    \cup {AlgOnly("HS256"), TypOnly("JWT"), <<>>}

HeaderTexts == {u \o c : u \in UnknownPrefixes, c \in HeaderCores}

HeaderSegments ==
    {base64_encode(t) : t \in HeaderTexts \cup {<<Garbage>>}} \cup {<<Bad>>}

PayloadTexts ==
    {PayloadJson(p) : p \in Payloads}
    \cup {<<Member("string", StrVal("Bilbo Baggins"))>>, <<Garbage>>}

PayloadSegments == {base64_encode(t) : t \in PayloadTexts} \cup {<<Bad>>}

\* Segments between the payload and the signature of an overlong token.
ExtraSegments == {<<>>, base64_encode(<<Garbage>>)}

RECURSIVE JoinDots(_)
JoinDots(segs) ==
    IF Len(segs) = 0 THEN <<>>
    ELSE <<Dot>> \o Head(segs) \o JoinDots(Tail(segs))

Extras == {JoinDots(x) : x \in UNION {[1..n -> ExtraSegments] : n \in 0..MaxExtra}}

\* The text before the last '.': a header segment alone, or header, payload
\* and any extra segments.
Messages ==
    HeaderSegments
    \cup {h \o <<Dot>> \o p \o x : h \in HeaderSegments, p \in PayloadSegments, x \in Extras}

\* Signature segments that are no tag: empty, a base64 text, not base64.
OtherSignatures == {<<>>, base64_encode(<<Garbage>>), <<Bad>>}

Tokens ==
    HeaderSegments
    \cup {Sign(k, m) : k \in Keys, m \in Messages}
    \cup {m \o <<Dot>> \o s : m \in Messages, s \in OtherSignatures}

---------------------------------------------------------------------------
(* parse, statement by statement. *)

VARIABLES
    json,       \* parse's token argument
    key,        \* parse's key argument
    pc,         \* the statement parse is at
    signature,  \* line 44: the decoded signature, a Result
    message,    \* line 45: the text before the last '.', an Option
    header,     \* line 58: the decoded header segment, a Result
    payload,    \* line 59: the decoded payload segment, a Result
    hdr,        \* line 61: the Header parse_json returned, a Result
    result,     \* what parse returned
    calls,      \* the calls parse has made so far, in order
    original    \* the accepted token that json is an alteration of, if any

vars == <<json, key, pc, signature, message, header, payload, hdr, result, calls, original>>

Init ==
    /\ json \in Tokens
    /\ key \in Keys
    /\ pc = "start"
    /\ signature = Unset
    /\ message = Unset
    /\ header = Unset
    /\ payload = Unset
    /\ hdr = Unset
    /\ result = Unset
    /\ calls = <<>>
    /\ original = None

\* next().ok_or(Error::Format).and_then(base64_decode)
DecodePart(part) == IF IsSome(part) THEN base64_decode(part[2]) ELSE Err(Format)

\* Lines 42-45: split from the right and decode the signature segment.
SplitSignature ==
    /\ pc = "start"
    /\ LET rparts == rsplitn2(json)
       IN /\ signature' = DecodePart(NextPart(rparts, 1))
          /\ message' = NextPart(rparts, 2)
    /\ calls' = Append(calls, <<"base64_decode", "signature">>)
    /\ pc' = "verify"
    /\ UNCHANGED <<json, key, header, payload, hdr, result, original>>

\* The match on (signature, message) without the try! around it: a failed
\* comparison is computed and parse goes on.
VerifySignatureNoReturn ==
    /\ pc = "verify"
    /\ IF IsOk(signature) /\ IsSome(message)
       THEN LET hmac_equals == hmac_sha256_equals(message[2], key, signature[2])
            IN /\ calls' = Append(calls, <<"hmac_sha256_equals", IF hmac_equals THEN "equal" ELSE "differ">>)
               /\ pc' = "split"
               /\ result' = result
       ELSE /\ calls' = calls
            /\ pc' = "done"
            /\ result' = Err(Format)
    /\ UNCHANGED <<json, key, signature, message, header, payload, hdr, original>>

\* Lines 43-54: the match on (signature, message) and the try! around it.
VerifySignature ==
    /\ pc = "verify"
    /\ IF IsOk(signature) /\ IsSome(message)
       THEN LET hmac_equals == hmac_sha256_equals(message[2], key, signature[2])
            IN /\ calls' = Append(calls, <<"hmac_sha256_equals", IF hmac_equals THEN "equal" ELSE "differ">>)
               /\ IF hmac_equals
                  THEN pc' = "split" /\ result' = result
                  ELSE pc' = "done" /\ result' = Err(Signature)
       ELSE /\ calls' = calls
            /\ pc' = "done"
            /\ result' = Err(Format)
    /\ UNCHANGED <<json, key, signature, message, header, payload, hdr, original>>

\* Lines 56-59: split from the left and decode header and payload segments.
SplitParts ==
    /\ pc = "split"
    /\ LET parts == splitn3(json)
       IN /\ header' = DecodePart(NextPart(parts, 1))
          /\ payload' = DecodePart(NextPart(parts, 2))
    /\ calls' = calls \o <<<<"base64_decode", "header">>, <<"base64_decode", "payload">>>>
    /\ pc' = "match"
    /\ UNCHANGED <<json, key, signature, message, hdr, result, original>>

\* Lines 57-60 and 65: the match on (header, payload).
MatchParts ==
    /\ pc = "match"
    /\ IF IsOk(header) /\ IsOk(payload)
       THEN pc' = "header_json" /\ result' = result
       ELSE pc' = "done" /\ result' = Err(Format)
    /\ UNCHANGED <<json, key, signature, message, header, payload, hdr, calls, original>>

\* Line 61: parse_json(header.as_slice()); try! returns its error.
ParseHeader ==
    /\ pc = "header_json"
    /\ hdr' = parse_json("Header", header[2])
    /\ calls' = Append(calls, <<"parse_json", "header">>)
    /\ IF IsOk(hdr')
       THEN pc' = "validate" /\ result' = result
       ELSE pc' = "done" /\ result' = hdr'
    /\ UNCHANGED <<json, key, signature, message, header, payload, original>>

\* Line 62: .and_then(validate_header); try! returns its error.
ValidateHeader ==
    /\ pc = "validate"
    /\ calls' = Append(calls, <<"validate_header", "header">>)
    /\ LET valid == validate_header(hdr[2])
       IN IF IsOk(valid)
          THEN pc' = "payload_json" /\ result' = result
          ELSE pc' = "done" /\ result' = valid
    /\ UNCHANGED <<json, key, signature, message, header, payload, hdr, original>>

\* Line 63: parse_json(payload.as_slice()) is what parse returns.
ParsePayload ==
    /\ pc = "payload_json"
    /\ result' = parse_json("Payload", payload[2])
    /\ calls' = Append(calls, <<"parse_json", "payload">>)
    /\ pc' = "done"
    /\ UNCHANGED <<json, key, signature, message, header, payload, hdr, original>>

\* The positions of json after its last '.'.
SignaturePositions(s) ==
    IF DotPositions(s) = {} THEN 1..Len(s)
    ELSE (Max(DotPositions(s)) + 1)..Len(s)

\* What a character of the signature is replaced by: '.', a character that is
\* not base64, a base64 digit of no tag, another digit of the same signature.
Replacements(s) == {Dot, Bad, B64(Garbage)} \cup {s[i] : i \in SignaturePositions(s)}

\* An accepted token comes back with one character of its signature segment
\* replaced, and parse is called on it with the same key.
Tamper ==
    /\ pc = "done"
    /\ IsOk(result)
    /\ original = None
    /\ \E i \in SignaturePositions(json) : \E c \in Replacements(json) \ {json[i]} :
          json' = [json EXCEPT ![i] = c]
    /\ original' = Some(json)
    /\ pc' = "start"
    /\ signature' = Unset
    /\ message' = Unset
    /\ header' = Unset
    /\ payload' = Unset
    /\ hdr' = Unset
    /\ result' = Unset
    /\ calls' = <<>>
    /\ UNCHANGED key

Next ==
    \/ SplitSignature
    \/ VerifySignature
    \/ SplitParts
    \/ MatchParts
    \/ ParseHeader
    \/ ValidateHeader
    \/ ParsePayload
    \/ Tamper

Spec == Init /\ [][Next]_vars

---------------------------------------------------------------------------
(* What the properties below speak of. *)

Done == pc = "done"
Called(c) == \E i \in 1..Len(calls) : calls[i] = c
MacEqual == <<"hmac_sha256_equals", "equal">>
MacDiffer == <<"hmac_sha256_equals", "differ">>

\* The calls that decode a header or payload segment or hand it to JSON.
ContentCalls ==
    {<<"base64_decode", "header">>, <<"base64_decode", "payload">>,
     <<"parse_json", "header">>, <<"parse_json", "payload">>}

\* The segments of a token, all of them, cut at every '.'.
RECURSIVE Segments(_)
Segments(s) ==
    IF DotPositions(s) = {} THEN <<s>>
    ELSE LET i == Min(DotPositions(s))
         IN <<SubSeq(s, 1, i - 1)>> \o Segments(SubSeq(s, i + 1, Len(s)))

ValidBase64(seg) == \A i \in 1..Len(seg) : IsB64(seg[i])
SignatureSegment(s) == SubSeq(s, Min(SignaturePositions(s) \cup {Len(s) + 1}), Len(s))

\* Header texts with both fields, and with one of them or both missing.
BothFields(h) ==
    {u \o c : u \in UnknownPrefixes,
              c \in {HeaderJson(h), TypOnly(h.typ) \o AlgOnly(h.alg)}}
MissingField ==
    {u \o c : u \in UnknownPrefixes,
              c \in {AlgOnly(a) : a \in AlgValues} \cup {TypOnly(t) : t \in TypValues} \cup {<<>>}}
    \ {<<>>}

---------------------------------------------------------------------------
(* The properties. *)

MacBeforeDecode ==
    /\ \A i \in 1..Len(calls) :
          calls[i] \in ContentCalls => \E j \in 1..(i - 1) : calls[j] = MacEqual
    /\ Called(MacDiffer) =>
          /\ \A c \in ContentCalls : ~Called(c)
          /\ header = Unset /\ payload = Unset /\ hdr = Unset
          /\ Done /\ result = Err(Signature)

MacBeforeDecodeWitness ==
    /\ Done
    /\ Called(MacDiffer)
    /\ Len(Segments(json)) = 3
    /\ \A i \in 1..2 : ValidBase64(Segments(json)[i])

TamperedSignatureFails ==
    (Done /\ IsSome(original)) =>
        LET first == Min(SignaturePositions(original[2]))
            altered == SubSeq(json, first, Len(json))
        IN result = IF ValidBase64(altered) THEN Err(Signature) ELSE Err(Format)

\* C5: when the MAC verified and the header text is a Header whose alg is not
\* "HS256" or whose typ is not "JWT", parse returns Format and the payload is
\* never handed to the JSON decoder; the payload is only ever handed to it
\* after a header with exactly these two values.
AlgTypPinned ==
    /\ \A h \in Headers :
          (Done /\ IsOk(header) /\ header[2] \in BothFields(h)
                /\ (h.alg # "HS256" \/ h.typ # "JWT"))
              => (result = Err(Format) /\ ~Called(<<"parse_json", "payload">>))
    /\ (pc = "payload_json" \/ Called(<<"parse_json", "payload">>))
          => hdr = Ok(GoodHeader)

AlgTypPinnedWitness ==
    /\ Done
    /\ Called(MacEqual)
    /\ IsOk(header) /\ IsOk(payload)
    /\ header[2] = HeaderJson([alg |-> "none", typ |-> "JWT"])
    /\ result = Err(Format)

\* C6: a token with exactly one '.' fails with Format.
TwoSegmentsFormat ==
    (Done /\ Cardinality(DotPositions(json)) = 1) => result = Err(Format)

\* C7: an accepted token has exactly three segments, and the text the MAC was
\* verified over is its header segment, '.', and its payload segment.
AcceptedHasThreeSegments ==
    (Done /\ IsOk(result)) =>
        /\ Len(Segments(json)) = 3
        /\ message[2] = Segments(json)[1] \o <<Dot>> \o Segments(json)[2]

\* C8: the Signature error is returned only for tokens of exactly three
\* segments whose header and payload segments are base64.
SignatureOnlyWellFormed ==
    (Done /\ result = Err(Signature)) =>
        /\ Len(Segments(json)) = 3
        /\ ValidBase64(Segments(json)[1])
        /\ ValidBase64(Segments(json)[2])

\* C9: a token without '.', or whose text after the last '.' is not base64,
\* fails with Format.
UndecodableSignatureFormat ==
    (Done /\ (DotPositions(json) = {} \/ ~ValidBase64(SignatureSegment(json))))
        => result = Err(Format)

UndecodableSignatureWitness ==
    /\ Done
    /\ DotPositions(json) # {}
    /\ ~ValidBase64(SignatureSegment(json))
    /\ ValidBase64(Segments(json)[1])
    /\ result = Err(Format)

\* The part of C10 about the decoder: a header text with both fields decodes
\* to the Header of their values, unrecognised members ignored, and one with
\* a field missing fails with a Json error.
HeaderDecode ==
    hdr # Unset =>
        /\ \A h \in Headers : header[2] \in BothFields(h) => hdr = Ok(h)
        /\ header[2] \in MissingField => hdr = Err(Json)

\* C10 as claimed: HeaderDecode, and a token whose MAC verifies and whose
\* header misses a field fails with Json.
MissingFieldJson ==
    /\ HeaderDecode
    /\ (Done /\ Called(MacEqual) /\ Len(Segments(json)) >= 2
             /\ \E t \in MissingField : Segments(json)[1] = base64_encode(t))
          => result = Err(Json)

\* C10 as amended: HeaderDecode, and a token whose MAC verifies, whose header
\* misses a field and whose payload segment is base64 fails with Json.
MissingFieldJsonDecodable ==
    /\ HeaderDecode
    /\ (Done /\ Called(MacEqual) /\ Len(Segments(json)) >= 2
             /\ ValidBase64(Segments(json)[2])
             /\ \E t \in MissingField : Segments(json)[1] = base64_encode(t))
          => result = Err(Json)

MissingFieldJsonWitness ==
    /\ Done
    /\ Called(MacEqual)
    /\ Segments(json)[1] = base64_encode(<<Unknown>> \o AlgOnly("HS256"))
    /\ hdr = Err(Json)
    /\ result = Err(Json)

=============================================================================
